---- MODULE Spec2Model ----
(***************************************************************************)
(* GPUTextureCache (src/core/gpu_hw_texture_cache.{h,cpp}): the page-indexed *)
(* source table, the content-addressed hash cache, the drawn-rect tracker   *)
(* and the per-frame aging pass, as a state machine.                        *)
(*                                                                          *)
(* Pointers are modelled by identity: a Source* is a source id (0 = null),  *)
(* a SourceListNode* is <<source id, index into page_refs>> (<<0,0>> =      *)
(* null), a SourceList* is the page number of m_page_sources (-1 = null),   *)
(* a HashCacheEntry* is the HashCacheKey of the map node, a GPUTexture* is  *)
(* a device handle (0 = null).                                              *)
(***************************************************************************)
EXTENDS Integers, Sequences, FiniteSets, TLC

(* ------------------------------------------------------------------------ *)
(* Bounds of the model                                                      *)
(* ------------------------------------------------------------------------ *)
\* Number of texture handles the device can hand out before FetchTexture fails.
MaxTextures == 2
\* Number of frames (AgeHashCache calls) a run goes through.
MaxFrames == 1
\* Number of Source objects the allocator can hold at once.
MaxSources == 3

(* ------------------------------------------------------------------------ *)
(* Program constants                                                        *)
(* ------------------------------------------------------------------------ *)
VRAM_WIDTH == 1024
VRAM_HEIGHT == 512
TEXTURE_PAGE_WIDTH == 256
TEXTURE_PAGE_HEIGHT == 256
VRAM_PAGE_WIDTH == 64
VRAM_PAGE_HEIGHT == 256
VRAM_PAGES_WIDE == VRAM_WIDTH \div VRAM_PAGE_WIDTH
VRAM_PAGES_HIGH == VRAM_HEIGHT \div VRAM_PAGE_HEIGHT
NUM_PAGES == VRAM_PAGES_WIDE * VRAM_PAGES_HIGH
MAX_PAGE_REFS_PER_SOURCE == 6
MAX_HASH_CACHE_AGE == 600
MAX_HASH_CACHE_SIZE == 200

\* Largest coordinate the model's integers hold; stands for the u32 maximum.
U32_MAX == 2147483647

\* GPUTextureMode
Palette4Bit == 0
Palette8Bit == 1
Direct16Bit == 2
Reserved_Direct16Bit == 3

Min(a, b) == IF a < b THEN a ELSE b
Max(a, b) == IF a > b THEN a ELSE b

(* ------------------------------------------------------------------------ *)
(* Common::Rectangle<u32>                                                   *)
(* ------------------------------------------------------------------------ *)
Rect(l, t, r, b) == [left |-> l, top |-> t, right |-> r, bottom |-> b]
\* Default-constructed rectangle: the invalid range that Include() can grow.
InvalidRect == Rect(U32_MAX, U32_MAX, 0, 0)
RectGetWidth(rc) == rc.right - rc.left
RectGetHeight(rc) == rc.bottom - rc.top
RectIntersects(a, b) ==
    ~(a.left >= b.right \/ b.left >= a.right \/ a.top >= b.bottom \/ b.top >= a.bottom)
RectInclude(a, b) ==
    Rect(Min(a.left, b.left), Min(a.top, b.top), Max(a.right, b.right), Max(a.bottom, b.bottom))

(* ------------------------------------------------------------------------ *)
(* Page geometry                                                            *)
(* ------------------------------------------------------------------------ *)
PageIndex(px, py) == (py * VRAM_PAGES_WIDE) + px
VRAMCoordinateToPage(x, y) == PageIndex(x \div VRAM_PAGE_WIDTH, y \div VRAM_PAGE_HEIGHT)
PageStartX(pn) == (pn % VRAM_PAGES_WIDE) * VRAM_PAGE_WIDTH
PageStartY(pn) == (pn \div VRAM_PAGES_WIDE) * VRAM_PAGE_HEIGHT
\* TEXTURE_PAGE_WIDTH >> (mode < Direct16Bit ? 2 - mode : 0)
WidthForMode(mode) ==
    TEXTURE_PAGE_WIDTH \div (2 ^ (IF mode < Direct16Bit THEN 2 - mode ELSE 0))

\* GPUTexturePaletteReg: bits 0-5 are x/16, bits 6-14 are y.
PaletteGetXBase(bits) == (bits % 64) * 16
PaletteGetYBase(bits) == (bits \div 64) % 512
PaletteGetWidth(mode) == IF mode = Palette4Bit THEN 16 ELSE 256

\* (x + (width - 1)) / page in u32 arithmetic: for a width of 0, width - 1
\* wraps to 0xFFFFFFFF, and the sum wraps on to x - 1 unless x is 0.
\* 0xFFFFFFFF / page is written from U32_MAX = 0x7FFFFFFF, page being a
\* power of two.
LastPage(x, width, page) ==
    IF width = 0 /\ x = 0 THEN (U32_MAX \div page) * 2 + 1
    ELSE (x + (width - 1)) \div page

\* Variant: every row of pages is walked from the first page of VRAM's row.
LoopPages_RowStart(x, y, width, height) ==
    LET start_x == x \div VRAM_PAGE_WIDTH
        start_y == y \div VRAM_PAGE_HEIGHT
        end_x == LastPage(x, width, VRAM_PAGE_WIDTH)
        end_y == LastPage(y, height, VRAM_PAGE_HEIGHT)
        cols == IF end_x >= start_x THEN end_x - start_x + 1 ELSE 0
        rows == IF end_y >= start_y THEN end_y - start_y + 1 ELSE 0
    IN [i \in 1..(rows * cols) |->
            PageIndex(0, start_y) + ((i - 1) \div cols) * VRAM_PAGES_WIDE]

\* The page numbers LoopPages hands to f, in call order.  The inner loop
\* advances y_page_number but calls f(page_number), so every column of a row
\* of pages yields the number of the row's first page.
LoopPages(x, y, width, height) ==
    LET start_x == x \div VRAM_PAGE_WIDTH
        start_y == y \div VRAM_PAGE_HEIGHT
        end_x == LastPage(x, width, VRAM_PAGE_WIDTH)
        end_y == LastPage(y, height, VRAM_PAGE_HEIGHT)
        cols == IF end_x >= start_x THEN end_x - start_x + 1 ELSE 0
        rows == IF end_y >= start_y THEN end_y - start_y + 1 ELSE 0
    IN [i \in 1..(rows * cols) |->
            PageIndex(start_x, start_y) + ((i - 1) \div cols) * VRAM_PAGES_WIDE]

\* DebugAssert(width > 0 && height > 0); DebugAssert(x + width <= VRAM_WIDTH && ...)
LoopPagesAsserts(x, y, width, height) ==
    /\ width > 0 /\ height > 0
    /\ x + width <= VRAM_WIDTH
    /\ y + height <= VRAM_HEIGHT

(* ------------------------------------------------------------------------ *)
(* g_vram, hashing and decoding                                             *)
(*                                                                          *)
(* g_vram is tracked at the cells of SampleCells; every other cell holds 0  *)
(* throughout (writes carry the old value there).  HashPage, HashPalette    *)
(* and DecodeTexture read rows of cells through a pointer into the array,   *)
(* so a row that starts near the right edge runs on into the next row, and  *)
(* past the last row into whatever lies after g_vram.  What a read past the *)
(* end gives is undefined: every cell there can hold any value, and it is   *)
(* chosen anew at every operation that reads there (AfterContents) and kept *)
(* in the cells of AfterVRAM, where the properties find what the operation  *)
(* saw.                                                                     *)
(*                                                                          *)
(* XXH3 is taken to be collision free: a digest is the stream of cells      *)
(* hashed, written as its length class and its cells other than 0, each     *)
(* with its position in the stream (only a sampled cell or a cell of        *)
(* AfterVRAM can hold another value).  The decoded texture is written in    *)
(* the same way: the pixel a cell holding 0 gives, and the pixels that      *)
(* differ from it.                                                          *)
(* ------------------------------------------------------------------------ *)
SampleCells == {<<0, 256>>, <<64, 256>>}
\* Values written into a sampled cell.
Values == {0, 1}
Lin(c) == c[2] * VRAM_WIDTH + c[1]
VRAM_SIZE == VRAM_WIDTH * VRAM_HEIGHT
\* The highest address a palette register names: the CLUT at (1008, 511).
MaxPaletteBase == (VRAM_HEIGHT - 1) * VRAM_WIDTH + 63 * 16
\* The memory after the last cell of g_vram, cell by cell: <<o, VRAM_HEIGHT>>
\* is the cell o places past the end.  The furthest read is the last entry
\* of a 256-entry CLUT at MaxPaletteBase (the last row of the last page ends
\* before it).
AfterVRAM == {<<o, VRAM_HEIGHT>> : o \in 0..(MaxPaletteBase + 256 - 1 - VRAM_SIZE)}
\* Values found there: 0, 1, 16 (as a CLUT index, the first cell past the
\* end of the last CLUT) and 0xFFFF.
AfterValues == {0, 1, 16, 65535}
VRAMCells == SampleCells \cup AfterVRAM
\* Contents of the memory after g_vram: one value throughout, zeros in the
\* first 64 cells and ones after them, 16 in the first cell only, or a
\* different value in every cell.
AfterContents ==
    {[c \in AfterVRAM |-> v] : v \in AfterValues}
    \cup {[c \in AfterVRAM |-> IF c[1] >= 64 THEN 1 ELSE 0],
          [c \in AfterVRAM |-> IF c[1] = 0 THEN 16 ELSE 0],
          [c \in AfterVRAM |-> c[1] + 1]}
\* vram with mem after the array.
WithAfter(vram, mem) == mem @@ vram

\* g_vram[addr], addr a linear index that may lie past the end: the cell at
\* column addr % VRAM_WIDTH of row addr / VRAM_WIDTH, row VRAM_HEIGHT being
\* the memory after the array.
Mem(vram, addr) ==
    IF \/ VRAM_SIZE <= addr /\ addr <= MaxPaletteBase + 256 - 1
       \/ <<addr % VRAM_WIDTH, addr \div VRAM_WIDTH>> \in SampleCells
    THEN vram[<<addr % VRAM_WIDTH, addr \div VRAM_WIDTH>>]
    ELSE 0

VRAMPagePointer(pn) == PageStartY(pn) * VRAM_WIDTH + PageStartX(pn)

\* The cells with a linear address in first..last that can hold a value
\* other than 0.
Tracked(first, last) ==
    {c \in SampleCells : first <= Lin(c) /\ Lin(c) <= last}
    \cup {<<a - VRAM_SIZE, VRAM_HEIGHT>> :
             a \in Max(first, VRAM_SIZE)..Min(last, MaxPaletteBase + 256 - 1)}

\* The lengths of stream hashed, numbered: CLUTs of 16 and 256 entries, pages
\* of 64, 128 and 256 cells a row.
StreamClass(width, rows) ==
    IF rows = 1 THEN (IF width = 16 THEN 0 ELSE 1)
    ELSE IF width = VRAM_PAGE_WIDTH THEN 2
    ELSE IF width = VRAM_PAGE_WIDTH * 2 THEN 3 ELSE 4

\* XXH3 of `rows` rows of `width` cells starting at linear address `base`,
\* each row VRAM_WIDTH further: the length class, then the cells of the
\* stream that are not 0, as <<position in the stream, value>>.
Digest(vram, base, width, rows) ==
    LET cells == {c \in Tracked(base, base + (rows - 1) * VRAM_WIDTH + (width - 1)) :
                     (Lin(c) - base) % VRAM_WIDTH < width /\ vram[c] # 0}
    IN <<StreamClass(width, rows),
         {<<((Lin(c) - base) \div VRAM_WIDTH) * width + ((Lin(c) - base) % VRAM_WIDTH),
            vram[c]>> : c \in cells}>>

\* The HashType 0 (no palette hash, a value-initialised key).
ZeroHash == <<0>>
\* XXH3_64bits_digest of a state nothing was hashed into.
EmptyDigest == <<>>
\* Marks a switch that reached DefaultCaseIsUnreachable().
Unreachable == <<-1>>

HashPage(vram, page, mode) ==
    CASE mode = Palette4Bit -> Digest(vram, VRAMPagePointer(page), VRAM_PAGE_WIDTH, VRAM_PAGE_HEIGHT)
      [] mode = Palette8Bit -> Digest(vram, VRAMPagePointer(page), VRAM_PAGE_WIDTH * 2, VRAM_PAGE_HEIGHT)
      [] mode = Direct16Bit -> Digest(vram, VRAMPagePointer(page), VRAM_PAGE_WIDTH * 4, VRAM_PAGE_HEIGHT)
      [] OTHER -> Unreachable

HashPalette(vram, palette, mode) ==
    LET base == PaletteGetYBase(palette) * VRAM_WIDTH + PaletteGetXBase(palette)
    IN CASE mode = Palette4Bit -> Digest(vram, base, 16, 1)
         [] mode = Palette8Bit -> Digest(vram, base, 256, 1)
         [] OTHER -> Unreachable

\* Texels in a cell: DecodeTexture4 takes four indices of four bits from a
\* cell, DecodeTexture8 two of eight, DecodeTexture16 the cell itself.
TexelsPerCell(mode) ==
    IF mode = Palette4Bit THEN 4 ELSE IF mode = Palette8Bit THEN 2 ELSE 1
\* The cell written to pixel p (row * TEXTURE_PAGE_WIDTH + column) of the
\* texture, before VRAMRGBA5551ToRGBA8888: palette[index] in the paletted
\* modes, the page cell itself in the direct ones.
Pixel(vram, page, palette, mode, p) ==
    LET k == TexelsPerCell(mode)
        x == p % TEXTURE_PAGE_WIDTH
        pp == Mem(vram, VRAMPagePointer(page) + (p \div TEXTURE_PAGE_WIDTH) * VRAM_WIDTH
                            + (x \div k))
        range == IF k = 4 THEN 16 ELSE 256
        index == (pp \div (range ^ (x % k))) % range
        pal == PaletteGetYBase(palette) * VRAM_WIDTH + PaletteGetXBase(palette)
    IN IF mode < Direct16Bit THEN Mem(vram, pal + index) ELSE pp

\* What DecodeTexture writes into the texture: `clut` is the pixel every
\* cell holding 0 gives (palette[0], or the cell itself), `texels` are the
\* pixels that differ from it, as <<pixel, value>>; they come from the
\* tracked cells among the TEXTURE_PAGE_HEIGHT rows of WidthForMode(mode)
\* cells read.
DecodeTexture(vram, page, palette, mode) ==
    IF mode \notin {Palette4Bit, Palette8Bit, Direct16Bit, Reserved_Direct16Bit}
    THEN [texels |-> {Unreachable}, clut |-> 0]
    ELSE LET base == VRAMPagePointer(page)
             k == TexelsPerCell(mode)
             pal == PaletteGetYBase(palette) * VRAM_WIDTH + PaletteGetXBase(palette)
             clut == IF mode < Direct16Bit THEN Mem(vram, pal) ELSE 0
             cells == {c \in Tracked(base, base + (TEXTURE_PAGE_HEIGHT - 1) * VRAM_WIDTH
                                                + (WidthForMode(mode) - 1)) :
                          (Lin(c) - base) % VRAM_WIDTH < WidthForMode(mode)}
             pixels == {((Lin(x[1]) - base) \div VRAM_WIDTH) * TEXTURE_PAGE_WIDTH
                           + ((Lin(x[1]) - base) % VRAM_WIDTH) * k + x[2] :
                        x \in cells \X (0..(k - 1))}
         IN [texels |-> {<<p, Pixel(vram, page, palette, mode, p)>> :
                           p \in {q \in pixels :
                                     Pixel(vram, page, palette, mode, q) # clut}},
             clut |-> clut]

\* Whether LookupHashCache for key reads past the end of g_vram: the last
\* row of the page (256 cells a row in DecodeTexture16, also where HashPage
\* has no case), or the CLUT.
ReadsPastEnd(key) ==
    \/ VRAMPagePointer(key.page) + (VRAM_PAGE_HEIGHT - 1) * VRAM_WIDTH
          + WidthForMode(key.mode) > VRAM_SIZE
    \/ /\ key.mode < Direct16Bit
       /\ PaletteGetYBase(key.palette) * VRAM_WIDTH + PaletteGetXBase(key.palette)
             + PaletteGetWidth(key.mode) > VRAM_SIZE

(* ------------------------------------------------------------------------ *)
(* Sources, list nodes and page lists                                       *)
(* ------------------------------------------------------------------------ *)
SourceIds == 1..MaxSources
NullSource == 0
NullNode == <<0, 0>>
NullList == -1
NullTexture == 0
NullEntry == [texture_hash |-> ZeroHash, palette_hash |-> ZeroHash, mode |-> -1]

SourceKey(page, palette, mode) == [page |-> page, mode |-> mode, palette |-> palette]

\* A value-initialised SourceListNode / Source (new Source()); a freed slot of
\* the allocator is shown the same way, with alive = FALSE.
ZeroNode == [ref |-> NullSource, list |-> NullList, prev |-> NullNode, next |-> NullNode]
ZeroSource ==
    [alive |-> FALSE, key |-> SourceKey(0, 0, 0), num_page_refs |-> 0,
     texture |-> NullTexture, from_hash_cache |-> NullEntry,
     page_refs |-> [i \in 1..MAX_PAGE_REFS_PER_SOURCE |-> ZeroNode]]
EmptyList == [head |-> NullNode, tail |-> NullNode]

\* The heap the list operations work on: H.s are the Source objects, H.p is
\* m_page_sources.  NodeAt dereferences a SourceListNode*.
NodeAt(H, n) == H.s[n[1]].page_refs[n[2]]

\* Variant: the old head is not linked back to the new one.
ListPrepend_NoBackLink(H, list, item, item_node) ==
    LET hd == H.p[list].head
        linked == [ref |-> item, list |-> list, prev |-> NullNode,
                   next |-> IF H.p[list].tail # NullNode THEN hd ELSE NullNode]
        H1 == [H EXCEPT !.s[item_node[1]].page_refs[item_node[2]] = linked]
    IN IF H.p[list].tail # NullNode
       THEN [H1 EXCEPT !.p[list].head = item_node]
       ELSE [H1 EXCEPT !.p[list] = [head |-> item_node, tail |-> item_node]]

ListPrepend(H, list, item, item_node) ==
    LET hd == H.p[list].head
        linked == [ref |-> item, list |-> list, prev |-> NullNode,
                   next |-> IF H.p[list].tail # NullNode THEN hd ELSE NullNode]
        H1 == [H EXCEPT !.s[item_node[1]].page_refs[item_node[2]] = linked]
    IN IF H.p[list].tail # NullNode
       THEN [H1 EXCEPT !.s[hd[1]].page_refs[hd[2]].prev = item_node,
                       !.p[list].head = item_node]
       ELSE [H1 EXCEPT !.p[list] = [head |-> item_node, tail |-> item_node]]

ListAppend(H, list, item, item_node) ==
    LET tl == H.p[list].tail
        linked == [ref |-> item, list |-> list, next |-> NullNode,
                   prev |-> IF tl # NullNode THEN tl ELSE NullNode]
        H1 == [H EXCEPT !.s[item_node[1]].page_refs[item_node[2]] = linked]
    IN IF tl # NullNode
       THEN [H1 EXCEPT !.s[tl[1]].page_refs[tl[2]].next = item_node,
                       !.p[list].tail = item_node]
       ELSE [H1 EXCEPT !.p[list] = [head |-> item_node, tail |-> item_node]]

\* Variant: the node is left where it is.
ListMoveToFront_Stay(H, list, item_node) == H

ListMoveToFront(H, list, item_node) ==
    LET nd == NodeAt(H, item_node)
    IN IF nd.prev = NullNode THEN H
       ELSE LET H1 == [H EXCEPT !.s[nd.prev[1]].page_refs[nd.prev[2]].next = nd.next]
                H2 == IF nd.next # NullNode
                      THEN [H1 EXCEPT !.s[nd.next[1]].page_refs[nd.next[2]].prev = nd.prev]
                      ELSE [H1 EXCEPT !.p[list].tail = nd.prev]
                hd == H2.p[list].head
                H3 == [H2 EXCEPT !.s[item_node[1]].page_refs[item_node[2]].prev = NullNode]
                H4 == [H3 EXCEPT !.s[hd[1]].page_refs[hd[2]].prev = item_node]
                H5 == [H4 EXCEPT !.s[item_node[1]].page_refs[item_node[2]].next = hd]
            IN [H5 EXCEPT !.p[list].head = item_node]

\* ListUnlink(const SourceListNode& node): the node itself is left as it is.
ListUnlink(H, item_node) ==
    LET nd == NodeAt(H, item_node)
        H1 == IF nd.prev # NullNode
              THEN [H EXCEPT !.s[nd.prev[1]].page_refs[nd.prev[2]].next = nd.next]
              ELSE [H EXCEPT !.p[nd.list].head = nd.next]
    IN IF nd.next # NullNode
       THEN [H1 EXCEPT !.s[nd.next[1]].page_refs[nd.next[2]].prev = nd.prev]
       ELSE [H1 EXCEPT !.p[nd.list].tail = nd.prev]

\* The nodes of a page list from head along next (at most `fuel` of them).
RECURSIVE ListNodesFrom(_, _, _)
ListNodesFrom(H, n, fuel) ==
    IF n = NullNode \/ fuel = 0 THEN <<>>
    ELSE <<n>> \o ListNodesFrom(H, NodeAt(H, n).next, fuel - 1)
ListNodes(H, pn) == ListNodesFrom(H, H.p[pn].head, MaxSources)

(* ------------------------------------------------------------------------ *)
(* InvalidatePage / InvalidatePages                                         *)
(* A cache state C is [H, hc, destroyed]: the heap, m_hash_cache and the    *)
(* Sources deleted so far by the running operation.                         *)
(* ------------------------------------------------------------------------ *)
RECURSIVE UnlinkRefs(_, _, _)
UnlinkRefs(H, src, i) ==
    IF i > H.s[src].num_page_refs THEN H
    ELSE UnlinkRefs(ListUnlink(H, <<src, i>>), src, i + 1)

\* Variant: an entry whose last Source goes is erased from the hash cache.
DestroySource_EraseAtZero(C, src) ==
    LET S == C.H.s[src]
        H1 == UnlinkRefs(C.H, src, 1)
        hc1 == IF S.from_hash_cache = NullEntry THEN C.hc
               ELSE IF C.hc[S.from_hash_cache].ref_count = 1
               THEN [k \in DOMAIN C.hc \ {S.from_hash_cache} |-> C.hc[k]]
               ELSE [C.hc EXCEPT ![S.from_hash_cache].ref_count = @ - 1]
    IN [H |-> [H1 EXCEPT !.s[src] = ZeroSource],
        hc |-> hc1,
        destroyed |-> C.destroyed \cup
            {[key |-> S.key, entry |-> S.from_hash_cache, texture |-> S.texture]}]

\* Variant: the hash-cache entry keeps its ref_count.
DestroySource_KeepRef(C, src) ==
    LET S == C.H.s[src]
        H1 == UnlinkRefs(C.H, src, 1)
    IN [H |-> [H1 EXCEPT !.s[src] = ZeroSource],
        hc |-> C.hc,
        destroyed |-> C.destroyed \cup
            {[key |-> S.key, entry |-> S.from_hash_cache, texture |-> S.texture]}]

\* One iteration of the loop of InvalidatePage on node n: unlink every page
\* ref of n->ref, drop its hash-cache reference, delete it.
DestroySource(C, src) ==
    LET S == C.H.s[src]
        H1 == UnlinkRefs(C.H, src, 1)
        hc1 == IF S.from_hash_cache # NullEntry
               THEN [C.hc EXCEPT ![S.from_hash_cache].ref_count = @ - 1]
               ELSE C.hc
    IN [H |-> [H1 EXCEPT !.s[src] = ZeroSource],
        hc |-> hc1,
        destroyed |-> C.destroyed \cup
            {[key |-> S.key, entry |-> S.from_hash_cache, texture |-> S.texture]}]

\* Variant: only the Source of the first node is destroyed.
InvalidateLoop_FirstOnly(C, n, fuel) ==
    IF n = NullNode \/ fuel = 0 THEN C
    ELSE DestroySource(C, NodeAt(C.H, n).ref)

RECURSIVE InvalidateLoop(_, _, _)
InvalidateLoop(C, n, fuel) ==
    IF n = NullNode \/ fuel = 0 THEN C
    ELSE LET nd == NodeAt(C.H, n)
         IN InvalidateLoop(DestroySource(C, nd.ref), nd.next, fuel - 1)

InvalidatePageOn(C, pn) ==
    LET C1 == InvalidateLoop(C, C.H.p[pn].head, MaxSources)
    IN [C1 EXCEPT !.H.p[pn] = EmptyList]

RECURSIVE InvalidateEach(_, _, _)
InvalidateEach(C, pns, i) ==
    IF i > Len(pns) THEN C
    ELSE LET C1 == InvalidatePageOn(C, pns[i])
         IN CASE C1.H.p[pns[i]].head = NullNode -> InvalidateEach(C1, pns, i + 1)

InvalidatePagesOn(C, x, y, width, height) ==
    InvalidateEach(C, LoopPages(x, y, width, height), 1)

(* ------------------------------------------------------------------------ *)
(* Hash cache and source creation                                           *)
(* ------------------------------------------------------------------------ *)
\* Variant: the palette register stands in for the hash of the CLUT cells.
HashCacheKeyOf_Register(vram, key) ==
    [texture_hash |-> HashPage(vram, key.page, key.mode),
     palette_hash |-> IF key.mode < Direct16Bit THEN <<key.palette>> ELSE ZeroHash,
     mode |-> key.mode]

HashCacheKeyOf(vram, key) ==
    [texture_hash |-> HashPage(vram, key.page, key.mode),
     palette_hash |-> IF key.mode < Direct16Bit
                      THEN HashPalette(vram, key.palette, key.mode) ELSE ZeroHash,
     mode |-> key.mode]

\* g_gpu_device->FetchTexture: a handle of the device's pool, or null when the
\* device fails (dev_ok = FALSE) or has none left.
FetchTexture(free, dev_ok) ==
    IF dev_ok /\ free # {} THEN CHOOSE t \in free : \A u \in free : t <= u
    ELSE NullTexture

\* Variant: the entry is put in the map before the texture is fetched, and
\* stays there with a null texture when the fetch fails.
LookupHashCache_InsertFirst(D, vram, key, dev_ok) ==
    LET hkey == HashCacheKeyOf(vram, key)
        tex == FetchTexture(D.free, dev_ok)
        hc1 == [k \in DOMAIN D.hc \cup {hkey} |->
                   IF k = hkey THEN [texture |-> tex, ref_count |-> 0, age |-> 0]
                   ELSE D.hc[k]]
    IN IF hkey \in DOMAIN D.hc
       THEN [D |-> D, entry |-> hkey, fetch |-> "none"]
       ELSE IF tex = NullTexture
       THEN [D |-> [D EXCEPT !.hc = hc1], entry |-> NullEntry, fetch |-> "fail"]
       ELSE [D |-> [hc |-> hc1,
                    free |-> D.free \ {tex},
                    data |-> [t \in DOMAIN D.data \cup {tex} |->
                              IF t = tex THEN DecodeTexture(vram, key.page, key.palette, key.mode)
                              ELSE D.data[t]]],
             entry |-> hkey, fetch |-> "ok"]

\* LookupHashCache on D = [hc, free, data]: m_hash_cache, the device's free
\* handles and the contents of the textures handed out.
\* LookupHashCacheAt is the function from the find on, hkey being the key
\* the hashes gave.
LookupHashCacheAt(D, vram, key, dev_ok, hkey) ==
    LET tex == FetchTexture(D.free, dev_ok)
    IN IF hkey \in DOMAIN D.hc
       THEN [D |-> D, entry |-> hkey, fetch |-> "none"]
       ELSE IF tex = NullTexture
       THEN [D |-> D, entry |-> NullEntry, fetch |-> "fail"]
       ELSE [D |-> [hc |-> [k \in DOMAIN D.hc \cup {hkey} |->
                              IF k = hkey THEN [texture |-> tex, ref_count |-> 0, age |-> 0]
                              ELSE D.hc[k]],
                    free |-> D.free \ {tex},
                    data |-> [t \in DOMAIN D.data \cup {tex} |->
                              IF t = tex THEN DecodeTexture(vram, key.page, key.palette, key.mode)
                              ELSE D.data[t]]],
             entry |-> hkey, fetch |-> "ok"]

LookupHashCache(D, vram, key, dev_ok) ==
    LookupHashCacheAt(D, vram, key, dev_ok, HashCacheKeyOf(vram, key))

\* add_page_ref / add_page_ref_back: page_refns[i] is the page whose list
\* page_refs[i] was put on, so it is read back from the node.
\* Variant: a page already referenced is referenced again.
AddPageRef_NoDedup(H, src, pn, back) ==
    LET ri == H.s[src].num_page_refs + 1
        H1 == [H EXCEPT !.s[src].num_page_refs = ri]
    IN IF back THEN ListAppend(H1, pn, src, <<src, ri>>)
       ELSE ListPrepend(H1, pn, src, <<src, ri>>)

AddPageRef(H, src, pn, back) ==
    IF \E i \in 1..H.s[src].num_page_refs : H.s[src].page_refs[i].list = pn
    THEN H
    ELSE LET ri == H.s[src].num_page_refs + 1
             H1 == [H EXCEPT !.s[src].num_page_refs = ri]
         IN IF back THEN ListAppend(H1, pn, src, <<src, ri>>)
            ELSE ListPrepend(H1, pn, src, <<src, ri>>)

RECURSIVE AddPageRefs(_, _, _, _, _)
AddPageRefs(H, src, pns, i, back) ==
    IF i > Len(pns) THEN H
    ELSE AddPageRefs(AddPageRef(H, src, pns[i], back), src, pns, i + 1, back)

\* new Source(): the lowest free slot of the allocator.
NewSource(H) == CHOOSE id \in SourceIds : ~H.s[id].alive /\ \A j \in 1..(id - 1) : H.s[j].alive

\* CreateSource after a successful LookupHashCache: entry is the node found or
\* inserted, hc the map holding it.
\* Variant: the age of the entry is left as it is.
CreateSourceOn_KeepAge(H, hc, entry, key) ==
    LET src == NewSource(H)
        hc1 == [hc EXCEPT ![entry].ref_count = @ + 1]
        H0 == [H EXCEPT !.s[src] = [ZeroSource EXCEPT !.alive = TRUE, !.key = key,
                                      !.num_page_refs = 0,
                                      !.texture = hc[entry].texture,
                                      !.from_hash_cache = entry]]
        H1 == AddPageRefs(H0, src,
                  LoopPages(PageStartX(key.page), PageStartY(key.page),
                            WidthForMode(key.mode), TEXTURE_PAGE_HEIGHT), 1, FALSE)
        H2 == IF key.mode < Direct16Bit
              THEN AddPageRefs(H1, src,
                       LoopPages(PaletteGetXBase(key.palette), PaletteGetYBase(key.palette),
                                 PaletteGetWidth(key.mode), 1), 1, TRUE)
              ELSE H1
    IN [H |-> H2, hc |-> hc1, ret |-> src]

CreateSourceOn(H, hc, entry, key) ==
    LET src == NewSource(H)
        hc1 == [hc EXCEPT ![entry].ref_count = @ + 1, ![entry].age = 0]
        H0 == [H EXCEPT !.s[src] = [ZeroSource EXCEPT !.alive = TRUE, !.key = key,
                                      !.num_page_refs = 0,
                                      !.texture = hc[entry].texture,
                                      !.from_hash_cache = entry]]
        H1 == AddPageRefs(H0, src,
                  LoopPages(PageStartX(key.page), PageStartY(key.page),
                            WidthForMode(key.mode), TEXTURE_PAGE_HEIGHT), 1, FALSE)
        H2 == IF key.mode < Direct16Bit
              THEN AddPageRefs(H1, src,
                       LoopPages(PaletteGetXBase(key.palette), PaletteGetYBase(key.palette),
                                 PaletteGetWidth(key.mode), 1), 1, TRUE)
              ELSE H1
    IN [H |-> H2, hc |-> hc1, ret |-> src]

\* Variant: only the head of the page list is compared.
FindSource_HeadOnly(H, n, key, fuel) ==
    IF n = NullNode \/ fuel = 0 THEN NullNode
    ELSE IF H.s[NodeAt(H, n).ref].key = key THEN n
    ELSE NullNode

\* The walk of LookupSource over the primary page list: the first node whose
\* Source has the key, or null.
RECURSIVE FindSource(_, _, _, _)
FindSource(H, n, key, fuel) ==
    IF n = NullNode \/ fuel = 0 THEN NullNode
    ELSE IF H.s[NodeAt(H, n).ref].key = key THEN n
    ELSE FindSource(H, NodeAt(H, n).next, key, fuel - 1)

(* ------------------------------------------------------------------------ *)
(* AgeHashCache                                                             *)
(* ------------------------------------------------------------------------ *)
\* Variant: one entry too few is purged.
PurgeExcess_OneLess(size) ==
    IF size > MAX_HASH_CACHE_SIZE THEN size - MAX_HASH_CACHE_SIZE - 1
    ELSE IF size = MAX_HASH_CACHE_SIZE THEN 0 ELSE U32_MAX

\* static_cast<u32>(size() - MAX_HASH_CACHE_SIZE): a size below the maximum
\* wraps to a value no list is as long as.
PurgeExcess(size) ==
    IF size >= MAX_HASH_CACHE_SIZE THEN size - MAX_HASH_CACHE_SIZE ELSE U32_MAX

\* The entries the loop erases for their age, and those it ages and keeps.
AgeEvicted(hc) ==
    {k \in DOMAIN hc : hc[k].ref_count = 0 /\ hc[k].age + 1 > MAX_HASH_CACHE_AGE}

\* Variant: referenced entries are aged and kept like unreferenced ones.
AgeKept_Referenced(hc) ==
    {k \in DOMAIN hc : ~(hc[k].ref_count = 0 /\ hc[k].age + 1 > MAX_HASH_CACHE_AGE)}

AgeKept(hc) ==
    {k \in DOMAIN hc : hc[k].ref_count = 0 /\ ~(hc[k].age + 1 > MAX_HASH_CACHE_AGE)}

\* The iteration order of the unordered_map is the library's.  The loop
\* depends on it only through which erased entries are visited before which
\* kept ones; two orders are explored: every erased entry after every kept
\* one (evict_last), or before.
VisitedBefore(evict_last, e, k) == ~evict_last

\* The loop over m_hash_cache: A.hc is the map after it, A.recycled the
\* textures given to RecycleTexture, A.flag might_need_cache_purge and A.list
\* the (entry, age) pairs of s_hash_cache_purge_list.  m_hash_cache.size()
\* when kept entry k is visited is the size less the entries erased before.
AgeLoop(hc, evict_last) ==
    LET evicted == AgeEvicted(hc)
        kept == AgeKept(hc)
        flag0 == Cardinality(DOMAIN hc) > MAX_HASH_CACHE_SIZE
        size_at(k) == Cardinality(DOMAIN hc)
                         - Cardinality({e \in evicted : VisitedBefore(evict_last, e, k)})
        \* might_need_cache_purge once k has been visited: it was true for
        \* every kept entry visited up to k (the sizes only fall).
        flag_at(k) == flag0 /\ size_at(k) > MAX_HASH_CACHE_SIZE
    IN [hc |-> [k \in DOMAIN hc \ evicted |->
                   IF k \in kept THEN [hc[k] EXCEPT !.age = @ + 1] ELSE hc[k]],
        recycled |-> {hc[k].texture : k \in evicted},
        flag |-> flag0 /\ \A k \in kept : flag_at(k),
        list |-> {<<k, hc[k].age + 1>> : k \in {j \in kept : flag_at(j)}}]

\* Variant: the list is sorted by ascending age, the youngest first.
PurgeChoices_Youngest(list, n) ==
    LET younger(t) == {e \in list : e[2] < t}
        atmost(t) == {e \in list : e[2] <= t}
    IN IF n = 0 THEN {{}}
       ELSE LET t == CHOOSE t \in {e[2] : e \in list} :
                        Cardinality(younger(t)) < n /\ n <= Cardinality(atmost(t))
                need == n - Cardinality(younger(t))
            IN {{e[1] : e \in younger(t) \cup T} :
                    T \in {T \in SUBSET (atmost(t) \ younger(t)) : Cardinality(T) = need}}

\* std::sort(purge list, lhs.second > rhs.second) and the first n of it: any
\* n entries none of which is younger than an entry left out (the order of
\* equal ages is the sort's).
PurgeChoices(list, n) ==
    LET older(t) == {e \in list : e[2] > t}
        atleast(t) == {e \in list : e[2] >= t}
    IN IF n = 0 THEN {{}}
       ELSE LET t == CHOOSE t \in {e[2] : e \in list} :
                        Cardinality(older(t)) < n /\ n <= Cardinality(atleast(t))
                need == n - Cardinality(older(t))
            IN {{e[1] : e \in older(t) \cup T} :
                    T \in {T \in SUBSET (atleast(t) \ older(t)) : Cardinality(T) = need}}

\* The map and the recycled textures AgeHashCache can end with.
AgeHashCacheOn(hc, evict_last) ==
    LET A == AgeLoop(hc, evict_last)
        n == Min(PurgeExcess(Cardinality(DOMAIN A.hc)), Cardinality(A.list))
    IN IF A.flag
       THEN {[hc |-> [k \in DOMAIN A.hc \ P |-> A.hc[k]],
              recycled |-> A.recycled \cup {A.hc[k].texture : k \in P}] :
                 P \in PurgeChoices(A.list, n)}
       ELSE {[hc |-> A.hc, recycled |-> A.recycled]}

(* ------------------------------------------------------------------------ *)
(* Inputs explored                                                          *)
(* ------------------------------------------------------------------------ *)
\* Palette registers: CLUT rows at (0, 256) and (64, 256).
PaletteA == 0 + 64 * 256
PaletteB == 4 + 64 * 256
Keys ==
    {SourceKey(0, PaletteA, Palette4Bit), SourceKey(0, PaletteB, Palette4Bit),
     SourceKey(0, PaletteA, Palette8Bit)}
\* Rectangles of VRAM writes (left, top, right, bottom): the CLUT row of
\* PaletteA (page 16), and a row over the CLUTs of both (pages 16 and 17).
WriteRects == {Rect(0, 256, 16, 257), Rect(0, 256, 80, 257)}
DrawRects == {Rect(0, 256, 64, 384)}
\* Rectangles given to InvalidatePages: a row over pages 16 and 17, and
\* columns 65..103 of row 0 (page 1).
InvalidateRects == {Rect(0, 256, 128, 257), Rect(65, 0, 104, 1)}
InvalidatePageNumbers == {17}
NoRect == Rect(0, 0, 0, 0)
PageRect(pn) ==
    Rect(PageStartX(pn), PageStartY(pn),
         PageStartX(pn) + VRAM_PAGE_WIDTH, PageStartY(pn) + VRAM_PAGE_HEIGHT)

(* ------------------------------------------------------------------------ *)
(* State                                                                    *)
(* ------------------------------------------------------------------------ *)
VARIABLES
    g_vram,          \* the sampled cells of VRAM and the memory after it
    sources,         \* the Source objects, by id
    m_page_sources,  \* the page lists
    m_hash_cache,    \* HashCacheKey -> HashCacheEntry
    m_drawn_rect,
    dev_free,        \* texture handles the device can still hand out
    tex_data,        \* contents of the textures handed out
    pending,         \* rectangle written to VRAM and not yet reported, or NoRect
    frame,           \* AgeHashCache calls so far (one a frame)
    last             \* the last operation, its arguments and results

vars == <<g_vram, sources, m_page_sources, m_hash_cache, m_drawn_rect, dev_free,
          tex_data, pending, frame, last>>

LiveSources == {id \in SourceIds : sources[id].alive}
HashCacheSize == Cardinality(DOMAIN m_hash_cache)
Heap == [s |-> sources, p |-> m_page_sources]
Cache == [H |-> Heap, hc |-> m_hash_cache, destroyed |-> {}]

NoOp ==
    [op |-> "none", key |-> SourceKey(0, 0, 0), rect |-> NoRect,
     ret |-> NullSource, fetch |-> "none", destroyed |-> {}, size_before |-> 0,
     after |-> ""]

EmptyMap == [k \in {} |-> 0]

Init ==
    /\ g_vram = [c \in VRAMCells |-> 0]
    /\ sources = [id \in SourceIds |-> ZeroSource]
    /\ m_page_sources = [pn \in 0..(NUM_PAGES - 1) |-> EmptyList]
    /\ m_hash_cache = EmptyMap
    /\ m_drawn_rect = InvalidRect
    /\ dev_free = 1..MaxTextures
    /\ tex_data = EmptyMap
    /\ pending = NoRect
    /\ frame = 0
    /\ last = NoOp

(* ------------------------------------------------------------------------ *)
(* Operations                                                               *)
(* ------------------------------------------------------------------------ *)
\* The emulator writes a rectangle of VRAM; it reports it with
\* InvalidateFromWrite before anything else is asked of the cache.
VRAMWrite(rect, v) ==
    /\ pending = NoRect
    /\ g_vram' = [c \in SampleCells |->
                    IF /\ rect.left <= c[1] /\ c[1] < rect.right
                       /\ rect.top <= c[2] /\ c[2] < rect.bottom
                    THEN v ELSE g_vram[c]] @@ g_vram
    /\ pending' = rect
    /\ last' = [NoOp EXCEPT !.op = "VRAMWrite"]
    /\ UNCHANGED <<sources, m_page_sources, m_hash_cache, m_drawn_rect, dev_free, tex_data, frame>>

\* How a LookupSource(key) follows the operation before it: "again" after a
\* LookupSource of the same key that returned a Source, "twin" (key having no
\* Source) after a LookupSource that inserted a hash-cache entry for another
\* palette register of the same page and paletted mode whose CLUT row holds
\* the same cells, "revived" after an operation that destroyed the Source of
\* this key when the hashes give the entry that Source had: hkey is the
\* HashCacheKey LookupHashCache came to (NullEntry if it returned null).
AfterOn(vram, key, hkey) ==
    IF last.op = "LookupSource" /\ last.ret # NullSource /\ last.key = key THEN "again"
    ELSE IF /\ last.op = "LookupSource" /\ last.ret # NullSource /\ last.fetch = "ok"
            /\ last.key.page = key.page /\ last.key.mode = key.mode
            /\ key.mode < Direct16Bit /\ last.key.palette # key.palette
            /\ HashPalette(vram, last.key.palette, key.mode)
                   = HashPalette(vram, key.palette, key.mode)
            /\ \A id \in SourceIds : sources[id].alive => sources[id].key # key
    THEN "twin"
    ELSE IF \E d \in last.destroyed :
               d.key = key /\ d.entry = hkey
    THEN "revived"
    ELSE ""

\* LookupSourceWith is LookupSource with L the outcome LookupHashCache has
\* when CreateSource calls it and vram what its reads found.
LookupSourceWith(vram, key, L) ==
    /\ pending = NoRect
    /\ LET n == FindSource(Heap, m_page_sources[key.page].head, key, MaxSources)
       IN IF n # NullNode
          THEN LET H1 == ListMoveToFront(Heap, key.page, n)
               IN /\ sources' = H1.s
                  /\ m_page_sources' = H1.p
                  /\ last' = [NoOp EXCEPT !.op = "LookupSource", !.key = key, !.size_before = HashCacheSize,
                                 !.ret = NodeAt(Heap, n).ref, !.after = AfterOn(vram, key, L.entry)]
                  /\ UNCHANGED <<m_hash_cache, dev_free, tex_data>>
          ELSE IF L.entry = NullEntry
          THEN /\ last' = [NoOp EXCEPT !.op = "LookupSource", !.key = key, !.size_before = HashCacheSize,
                              !.fetch = L.fetch, !.after = AfterOn(vram, key, L.entry)]
               /\ m_hash_cache' = L.D.hc
               /\ dev_free' = L.D.free
               /\ tex_data' = L.D.data
               /\ UNCHANGED <<sources, m_page_sources>>
          ELSE /\ \E id \in SourceIds : ~sources[id].alive
               /\ LET R == CreateSourceOn(Heap, L.D.hc, L.entry, key)
                  IN /\ sources' = R.H.s
                     /\ m_page_sources' = R.H.p
                     /\ m_hash_cache' = R.hc
                     /\ dev_free' = L.D.free
                     /\ tex_data' = L.D.data
                     /\ last' = [NoOp EXCEPT !.op = "LookupSource", !.key = key, !.size_before = HashCacheSize,
                                    !.ret = R.ret, !.fetch = L.fetch, !.after = AfterOn(vram, key, L.entry)]
    /\ g_vram' = vram
    /\ UNCHANGED <<m_drawn_rect, pending, frame>>

LookupSourceOn(key, L) == LookupSourceWith(g_vram, key, L)

Device == [hc |-> m_hash_cache, free |-> dev_free, data |-> tex_data]

LookupSource(key, dev_ok) ==
    LookupSourceOn(key, LookupHashCache(Device, g_vram, key, dev_ok))

InvalidatePage(pn) ==
    /\ pending = NoRect
    /\ LET C == InvalidatePageOn(Cache, pn)
       IN /\ sources' = C.H.s
          /\ m_page_sources' = C.H.p
          /\ m_hash_cache' = C.hc
          /\ last' = [NoOp EXCEPT !.op = "InvalidatePage", !.rect = PageRect(pn),
                         !.destroyed = C.destroyed]
    /\ UNCHANGED <<g_vram, m_drawn_rect, dev_free, tex_data, pending, frame>>

InvalidatePages(rc) ==
    /\ pending = NoRect
    /\ LET C == InvalidatePagesOn(Cache, rc.left, rc.top, RectGetWidth(rc), RectGetHeight(rc))
       IN /\ sources' = C.H.s
          /\ m_page_sources' = C.H.p
          /\ m_hash_cache' = C.hc
          /\ last' = [NoOp EXCEPT !.op = "InvalidatePages", !.rect = rc,
                         !.destroyed = C.destroyed]
    /\ UNCHANGED <<g_vram, m_drawn_rect, dev_free, tex_data, pending, frame>>

Clear ==
    /\ pending = NoRect
    /\ LET C == InvalidateEach(Cache, [i \in 1..NUM_PAGES |-> i - 1], 1)
       IN /\ sources' = C.H.s
          /\ m_page_sources' = C.H.p
          /\ m_hash_cache' = C.hc
          /\ last' = [NoOp EXCEPT !.op = "Clear", !.destroyed = C.destroyed]
    /\ UNCHANGED <<g_vram, m_drawn_rect, dev_free, tex_data, pending, frame>>

UpdateDrawnRect(rect) ==
    /\ pending = NoRect
    /\ m_drawn_rect' =
          IF /\ rect.left >= m_drawn_rect.left /\ rect.right <= m_drawn_rect.right
             /\ rect.top >= m_drawn_rect.top /\ rect.bottom <= m_drawn_rect.bottom
          THEN m_drawn_rect
          ELSE RectInclude(m_drawn_rect, rect)
    /\ last' = [NoOp EXCEPT !.op = "UpdateDrawnRect"]
    /\ UNCHANGED <<g_vram, sources, m_page_sources, m_hash_cache, dev_free, tex_data, pending, frame>>

\* Variant: the drawn rect is emptied once the drawn region was invalidated.
InvalidateFromWrite_Reset(rect) ==
    /\ pending = rect
    /\ LET hit == RectIntersects(m_drawn_rect, rect)
           rc == IF hit THEN RectInclude(m_drawn_rect, rect) ELSE rect
           C == InvalidatePagesOn(Cache, rc.left, rc.top, RectGetWidth(rc), RectGetHeight(rc))
       IN /\ m_drawn_rect' = IF hit THEN InvalidRect ELSE m_drawn_rect
          /\ sources' = C.H.s
          /\ m_page_sources' = C.H.p
          /\ m_hash_cache' = C.hc
          /\ last' = [NoOp EXCEPT !.op = "InvalidateFromWrite", !.rect = rect,
                         !.destroyed = C.destroyed]
    /\ pending' = NoRect
    /\ UNCHANGED <<g_vram, dev_free, tex_data, frame>>

InvalidateFromWrite(rect) ==
    /\ pending = rect
    /\ LET drawn == IF RectIntersects(m_drawn_rect, rect)
                    THEN RectInclude(m_drawn_rect, rect) ELSE m_drawn_rect
           rc == IF RectIntersects(m_drawn_rect, rect) THEN drawn ELSE rect
           C == InvalidatePagesOn(Cache, rc.left, rc.top, RectGetWidth(rc), RectGetHeight(rc))
       IN /\ m_drawn_rect' = drawn
          /\ sources' = C.H.s
          /\ m_page_sources' = C.H.p
          /\ m_hash_cache' = C.hc
          /\ last' = [NoOp EXCEPT !.op = "InvalidateFromWrite", !.rect = rect,
                         !.destroyed = C.destroyed]
    /\ pending' = NoRect
    /\ UNCHANGED <<g_vram, dev_free, tex_data, frame>>

AgeHashCache(evict_last) ==
    /\ pending = NoRect
    /\ frame < MaxFrames
    /\ frame' = frame + 1
    /\ \E R \in AgeHashCacheOn(m_hash_cache, evict_last) :
          /\ m_hash_cache' = R.hc
          /\ dev_free' = dev_free \cup R.recycled
          /\ tex_data' = [t \in DOMAIN tex_data \ R.recycled |-> tex_data[t]]
    /\ last' = [NoOp EXCEPT !.op = "AgeHashCache",
                   !.size_before = HashCacheSize]
    /\ UNCHANGED <<g_vram, sources, m_page_sources, m_drawn_rect, pending>>

Next ==
    \/ \E rect \in WriteRects, v \in Values : VRAMWrite(rect, v)
    \/ \E rect \in WriteRects : InvalidateFromWrite(rect)
    \/ \E key \in Keys, dev_ok \in BOOLEAN : LookupSource(key, dev_ok)
    \/ \E pn \in InvalidatePageNumbers : InvalidatePage(pn)
    \/ \E rc \in InvalidateRects : InvalidatePages(rc)
    \/ \E rect \in DrawRects : UpdateDrawnRect(rect)
    \/ Clear
    \/ \E evict_last \in BOOLEAN : AgeHashCache(evict_last)

Spec == Init /\ [][Next]_vars

(* ------------------------------------------------------------------------ *)
(* SpecAge: a frame that starts with a full hash cache                      *)
(*                                                                          *)
(* The cache starts a frame holding NumOld entries no Source refers to,     *)
(* left by earlier frames (their hashes are of VRAM contents since          *)
(* overwritten, their textures are handles beyond the device's free ones),  *)
(* aged as one of AgeProfiles says.  Such a state is reached by looking up  *)
(* and invalidating NumOld contents over the frames before.                 *)
(* ------------------------------------------------------------------------ *)
OldEntries(num) == 1..num
\* A page hash and pixels of contents VRAM no longer holds.
OldHash(i) == <<StreamClass(VRAM_PAGE_WIDTH * 4, VRAM_PAGE_HEIGHT), {<<0, 1000 + i>>}>>
OldKey(i) == [texture_hash |-> OldHash(i), palette_hash |-> ZeroHash, mode |-> Direct16Bit]
OldTexture(i) == MaxTextures + i
AgeProfiles == {"distinct", "ties", "expiring"}
\* distinct: ages 1, 2, ... with the last entry about to expire; ties: the
\* three oldest have the same age; expiring: every entry is about to expire.
OldAge(profile, num, i) ==
    CASE profile = "distinct" -> IF i = num THEN MAX_HASH_CACHE_AGE ELSE i
      [] profile = "ties" -> IF i > num - 3 THEN 300 ELSE i
      [] OTHER -> MAX_HASH_CACHE_AGE

InitAge ==
    /\ g_vram = [c \in VRAMCells |-> 0]
    /\ sources = [id \in SourceIds |-> ZeroSource]
    /\ m_page_sources = [pn \in 0..(NUM_PAGES - 1) |-> EmptyList]
    /\ \E profile \in AgeProfiles, num \in {MAX_HASH_CACHE_SIZE - 1, MAX_HASH_CACHE_SIZE} :
          /\ m_hash_cache = [k \in {OldKey(i) : i \in OldEntries(num)} |->
                               LET i == CHOOSE i \in OldEntries(num) : k = OldKey(i)
                               IN [texture |-> OldTexture(i), ref_count |-> 0,
                                   age |-> OldAge(profile, num, i)]]
          /\ tex_data = [t \in {OldTexture(i) : i \in OldEntries(num)} |->
                               [texels |-> {<<0, 1000 + (t - MaxTextures)>>}, clut |-> 0]]
    /\ m_drawn_rect = InvalidRect
    /\ dev_free = 1..MaxTextures
    /\ pending = NoRect
    /\ frame = 0
    /\ last = NoOp

NextAge ==
    \/ \E key \in Keys, dev_ok \in BOOLEAN : LookupSource(key, dev_ok)
    \/ \E pn \in InvalidatePageNumbers : InvalidatePage(pn)
    \/ Clear
    \/ \E evict_last \in BOOLEAN : AgeHashCache(evict_last)

SpecAge == InitAge /\ [][NextAge]_vars

(* ------------------------------------------------------------------------ *)
(* SpecKeys: lookups of every key a draw can carry                          *)
(*                                                                          *)
(* A SourceKey is the texture page number (0..NUM_PAGES-1, those of         *)
(* KeyPages here), the texture mode (two bits, all four values) and the     *)
(* palette register (those of KeyPalettes).  VRAM is not                    *)
(* written here.  Three points of the code depend on the build: a failed    *)
(* DebugAssert and DefaultCaseIsUnreachable() stop a debug build (Panic),   *)
(* while a release build runs on; after DefaultCaseIsUnreachable() the      *)
(* value the switch of HashPage leaves in the hash is undefined, drawn from *)
(* UBHashes; and the keys of the last page and of the last CLUT positions   *)
(* make HashPage, HashPalette and DecodeTexture read past the end of        *)
(* g_vram, where each lookup finds any of AfterContents (the keys of Spec   *)
(* and SpecAge read inside the array only).                                 *)
(* ------------------------------------------------------------------------ *)
\* Palette registers: the CLUT at (0, 0), PaletteA at (0, 256), PaletteC at
\* (16, 256) off the page grid, and PaletteEdge at (1008, 511), the last CLUT
\* position the register can name.
PaletteC == 1 + 64 * 256
PaletteEdge == 63 + 64 * 511
KeyPalettes == {0, PaletteA, PaletteC, PaletteEdge}
\* Texture pages: the first, the last three a Direct16Bit footprint can start
\* at or past (12, 13, 15), the first of the lower row and the last page.
KeyPages == {0, 12, 13, 15, 16, NUM_PAGES - 1}
\* The palette register is read for the paletted modes only; the direct
\* modes carry two of its values.
AllKeys ==
    {SourceKey(page, palette, mode) :
        page \in KeyPages, palette \in KeyPalettes, mode \in {Palette4Bit, Palette8Bit}}
    \cup {SourceKey(page, palette, mode) :
        page \in KeyPages, palette \in {0, PaletteEdge},
        mode \in {Direct16Bit, Reserved_Direct16Bit}}
KeyInvalidatePages == {0, 16}

\* The DebugAsserts of the LoopPages calls CreateSource makes for key.
CreateAsserts(key) ==
    /\ LoopPagesAsserts(PageStartX(key.page), PageStartY(key.page),
                        WidthForMode(key.mode), TEXTURE_PAGE_HEIGHT)
    /\ key.mode < Direct16Bit =>
          LoopPagesAsserts(PaletteGetXBase(key.palette), PaletteGetYBase(key.palette),
                           PaletteGetWidth(key.mode), 1)

\* The hashes a release build can be left with for a mode HashPage has no
\* case for: the switch falls into one of its cases (an optimised build
\* gave the Palette4Bit one), or past all of them, the digest being then of
\* a state nothing was hashed into.
UBHashes(vram, page) ==
    {HashPage(vram, page, mode) : mode \in {Palette4Bit, Palette8Bit, Direct16Bit}}
    \cup {EmptyDigest}

\* A debug build stopped in Panic(); nothing runs afterwards.
Panic(key, what) ==
    /\ last' = [NoOp EXCEPT !.op = "Panic", !.key = key, !.after = what]
    /\ UNCHANGED <<g_vram, sources, m_page_sources, m_hash_cache, m_drawn_rect,
                   dev_free, tex_data, pending, frame>>

\* What LookupHashCache comes to in a build where an unreachable case leaves
\* the hash ub: whether HashPage reached DefaultCaseIsUnreachable(), and the
\* outcome of the function for the key the hashes gave.
LookupHashCacheBuild(D, vram, key, dev_ok, ub) ==
    LET hashes == HashCacheKeyOf(vram, key)
        unreachable == hashes.texture_hash = Unreachable
        hkey == IF unreachable THEN [hashes EXCEPT !.texture_hash = ub] ELSE hashes
    IN [unreachable |-> unreachable,
        L |-> LookupHashCacheAt(D, vram, key, dev_ok, hkey)]

\* CreateSource in a build with (debug) or without DebugAssert, vram being
\* what the reads found and B what LookupHashCacheBuild gave.
CreateSourceBuild(key, debug, vram, B) ==
    IF debug /\ B.unreachable THEN pending = NoRect /\ Panic(key, "unreachable")
    ELSE IF debug /\ B.L.entry # NullEntry /\ ~CreateAsserts(key)
    THEN pending = NoRect /\ Panic(key, "assert")
    ELSE LookupSourceWith(vram, key, B.L)

\* LookupSource in a build with (debug) or without DebugAssert, ub being the
\* hash an unreachable case leaves and vram g_vram with what the reads past
\* its end find.
LookupSourceBuild(key, dev_ok, debug, ub, vram) ==
    IF FindSource(Heap, m_page_sources[key.page].head, key, MaxSources) # NullNode
    THEN LookupSource(key, dev_ok)
    ELSE CreateSourceBuild(key, debug, vram,
             LookupHashCacheBuild(Device, vram, key, dev_ok, ub))

HasSource(key) == \E id \in SourceIds : sources[id].alive /\ sources[id].key = key
\* A key outside Keys is looked up while the cache is empty and again while
\* its Source is live; one that reads past the end of g_vram also right
\* after its Source, the only one, was destroyed.
KeyAllowed(key) ==
    \/ key \in Keys
    \/ HasSource(key)
    \/ LiveSources = {} /\ HashCacheSize = 0
    \/ /\ ReadsPastEnd(key)
       /\ LiveSources = {} /\ HashCacheSize = 1
       /\ \E d \in last.destroyed : d.key = key

\* Nothing runs after a Panic().
Running == last.op # "Panic"

\* The device fails for the keys of Keys only.
NextKeys ==
    \/ \E pn \in KeyInvalidatePages : Running /\ InvalidatePage(pn)
    \/ Running /\ Clear
    \/ \E key \in {k \in AllKeys : Running /\ KeyAllowed(k)}, debug \in BOOLEAN :
          \E dev_ok \in IF key \in Keys THEN BOOLEAN ELSE {TRUE} :
             \E vram \in IF ReadsPastEnd(key) /\ ~HasSource(key)
                         THEN {WithAfter(g_vram, mem) : mem \in AfterContents}
                         ELSE {g_vram} :
                \E ub \in IF key.mode = Reserved_Direct16Bit
                          THEN UBHashes(vram, key.page) ELSE {ZeroHash} :
                   LookupSourceBuild(key, dev_ok, debug, ub, vram)

SpecKeys == Init /\ [][NextKeys]_vars

(* ------------------------------------------------------------------------ *)
(* Properties                                                               *)
(* ------------------------------------------------------------------------ *)

\* The pages whose 64x256 rectangle intersects [x, x+width) x [y, y+height).
PagesIntersecting(x, y, width, height) ==
    {pn \in 0..(NUM_PAGES - 1) :
        /\ PageStartX(pn) < x + width /\ x < PageStartX(pn) + VRAM_PAGE_WIDTH
        /\ PageStartY(pn) < y + height /\ y < PageStartY(pn) + VRAM_PAGE_HEIGHT}
PagesOfRect(rc) == PagesIntersecting(rc.left, rc.top, RectGetWidth(rc), RectGetHeight(rc))
\* The pages of a key's texture footprint and, for paletted modes, CLUT row.
FootprintPages(key) ==
    PagesIntersecting(PageStartX(key.page), PageStartY(key.page),
                      WidthForMode(key.mode), TEXTURE_PAGE_HEIGHT)
ClutPages(key) ==
    IF key.mode < Direct16Bit
    THEN PagesIntersecting(PaletteGetXBase(key.palette), PaletteGetYBase(key.palette),
                           PaletteGetWidth(key.mode), 1)
    ELSE {}

\* C1 (cache coherence): once a VRAM write to R has been reported by
\* InvalidateFromWrite(R), no Source is left whose texture footprint or CLUT
\* row intersects a page R touches; and the Source a LookupSource returns
\* holds the texels decoded from VRAM as it is now.
C1_CacheCoherence ==
    /\ last.op = "InvalidateFromWrite" =>
          \A id \in LiveSources :
              (FootprintPages(sources[id].key) \cup ClutPages(sources[id].key))
                  \cap PagesOfRect(last.rect) = {}
    /\ (last.op = "LookupSource" /\ last.ret # NullSource) =>
          tex_data[sources[last.ret].texture]
              = DecodeTexture(g_vram, last.key.page, last.key.palette, last.key.mode)

\* C2: after InvalidatePages(rect) the page list of every page whose
\* rectangle intersects rect is empty.
C2_InvalidatePagesEmptiesAll ==
    last.op = "InvalidatePages" =>
        \A pn \in PagesOfRect(last.rect) : m_page_sources[pn] = EmptyList

\* C3: the ref_count of every hash-cache entry is the number of live Sources
\* whose from_hash_cache points at it.
C3_RefCountIsSourceCount ==
    \A k \in DOMAIN m_hash_cache :
        m_hash_cache[k].ref_count
            = Cardinality({id \in LiveSources : sources[id].from_hash_cache = k})
\* An invalidation has destroyed a Source while another entry is still referenced.
C3_Witness ==
    /\ last.destroyed # {}
    /\ \E k \in DOMAIN m_hash_cache : m_hash_cache[k].ref_count > 0
    /\ \E k \in DOMAIN m_hash_cache : m_hash_cache[k].ref_count = 0

\* C4: a LookupSource(k) right after a LookupSource(k) that returned a Source
\* returns the same Source, creates no Source, fetches no texture, leaves the
\* hash cache (entries, ref_counts, ages) as it is, and changes the page lists
\* only by having the matched node at the front of the primary page list.
C4_Step ==
    (/\ last.op = "LookupSource" /\ last.ret # NullSource
     /\ last'.op = "LookupSource" /\ last'.key = last.key)
    => /\ last'.ret = last.ret
       /\ last'.fetch = "none"
       /\ m_hash_cache' = m_hash_cache /\ dev_free' = dev_free /\ tex_data' = tex_data
       /\ {id \in SourceIds : sources'[id].alive} = LiveSources
       /\ \A id \in LiveSources :
             /\ sources'[id].key = sources[id].key
             /\ sources'[id].from_hash_cache = sources[id].from_hash_cache
             /\ sources'[id].texture = sources[id].texture
             /\ sources'[id].num_page_refs = sources[id].num_page_refs
       /\ \A pn \in 0..(NUM_PAGES - 1) :
             pn # last.key.page => m_page_sources'[pn] = m_page_sources[pn]
       /\ m_page_sources'[last.key.page].head[1] = last.ret
       /\ {n[1] : n \in {ListNodes([s |-> sources', p |-> m_page_sources'], last.key.page)[i] :
                            i \in 1..Len(ListNodes([s |-> sources', p |-> m_page_sources'], last.key.page))}}
            = {n[1] : n \in {ListNodes(Heap, last.key.page)[i] :
                            i \in 1..Len(ListNodes(Heap, last.key.page))}}
C4_RepeatedLookup == [][C4_Step]_vars
\* The second of two LookupSource(k) in a row has returned, with other Sources
\* on the primary page list.
C4_Witness ==
    /\ last.op = "LookupSource" /\ last.after = "again" /\ last.ret # NullSource
    /\ Cardinality(LiveSources) >= 2

\* C5: no two live Sources have the same SourceKey.
C5_OneSourcePerKey ==
    \A a \in LiveSources, b \in LiveSources : sources[a].key = sources[b].key => a = b
\* A key that already had a Source was looked up while every key had one.
C5_Witness ==
    /\ last.op = "LookupSource" /\ last.ret # NullSource /\ last.fetch = "none"
    /\ {sources[id].key : id \in LiveSources} = Keys

\* C6 (content addressing): when the Source of k was destroyed by the
\* operation before and the VRAM it was decoded from is as it was, LookupSource(k)
\* returns a Source on the same hash-cache entry with the same texture,
\* fetches no texture and leaves the size of the hash cache as it is.
C6_Step ==
    \A d \in last.destroyed :
        (/\ last'.op = "LookupSource" /\ last'.key = d.key
         /\ d.entry = HashCacheKeyOf(g_vram, d.key))
        => /\ last'.ret # NullSource
           /\ sources'[last'.ret].from_hash_cache = d.entry
           /\ sources'[last'.ret].texture = d.texture
           /\ m_hash_cache'[d.entry].texture = d.texture
           /\ last'.fetch = "none"
           /\ dev_free' = dev_free
           /\ DOMAIN m_hash_cache' = DOMAIN m_hash_cache
C6_ContentAddressing == [][C6_Step]_vars
C6_Witness ==
    /\ last.op = "LookupSource" /\ last.after = "revived" /\ last.ret # NullSource
    /\ HashCacheSize >= 2

\* C7 (deduplication): LookupSource of a key that inserts a hash-cache entry,
\* then LookupSource of a key without a Source that has the same page and
\* paletted mode, another palette register and a CLUT row of the same cells:
\* two distinct Sources on one entry, whose ref_count is 2, the second lookup
\* adding no entry (so the two added exactly one).
C7_Step ==
    (/\ last.op = "LookupSource" /\ last.ret # NullSource /\ last.fetch = "ok"
     /\ last'.op = "LookupSource"
     /\ last'.key.page = last.key.page /\ last'.key.mode = last.key.mode
     /\ last.key.mode < Direct16Bit /\ last'.key.palette # last.key.palette
     /\ HashPalette(g_vram, last.key.palette, last.key.mode)
           = HashPalette(g_vram, last'.key.palette, last.key.mode)
     /\ \A id \in LiveSources : sources[id].key # last'.key)
    => /\ last'.ret # NullSource /\ last'.ret # last.ret
       /\ sources'[last.ret].alive /\ sources'[last'.ret].alive
       /\ sources'[last'.ret].from_hash_cache = sources'[last.ret].from_hash_cache
       /\ sources'[last'.ret].texture = sources'[last.ret].texture
       /\ m_hash_cache'[sources'[last.ret].from_hash_cache].ref_count = 2
       /\ DOMAIN m_hash_cache' = DOMAIN m_hash_cache
       /\ Cardinality(DOMAIN m_hash_cache') = last.size_before + 1
C7_Deduplication == [][C7_Step]_vars
C7_Witness ==
    /\ last.op = "LookupSource" /\ last.after = "twin" /\ last.ret # NullSource
    /\ m_hash_cache[sources[last.ret].from_hash_cache].ref_count = 2

\* C8: a LookupSource for which the device gave no texture returns null and
\* leaves the Sources, the page lists, the hash cache and the device as they were.
C8_Step ==
    (last'.op = "LookupSource" /\ last'.fetch = "fail")
    => /\ last'.ret = NullSource
       /\ UNCHANGED <<sources, m_page_sources, m_hash_cache, dev_free, tex_data>>
C8_FetchFailure == [][C8_Step]_vars
C8_Witness ==
    /\ last.op = "LookupSource" /\ last.fetch = "fail" /\ last.ret = NullSource
    /\ LiveSources # {} /\ dev_free # {}

\* C9: the hash-cache entry of every live Source is in the hash cache and
\* owns the Source's texture, which the device has not got back and no other
\* entry owns.
C9_LiveSourceKeepsTexture ==
    \A id \in LiveSources :
        /\ sources[id].from_hash_cache \in DOMAIN m_hash_cache
        /\ m_hash_cache[sources[id].from_hash_cache].texture = sources[id].texture
        /\ sources[id].texture \notin dev_free
        /\ sources[id].texture \in DOMAIN tex_data
        /\ \A k \in DOMAIN m_hash_cache :
              m_hash_cache[k].texture = sources[id].texture => k = sources[id].from_hash_cache
\* AgeHashCache has removed entries while a Source was live.
C9_Witness ==
    /\ last.op = "AgeHashCache" /\ HashCacheSize < last.size_before
    /\ LiveSources # {}

\* C10: after AgeHashCache the hash cache holds at most MAX_HASH_CACHE_SIZE
\* entries, or every entry left has a ref_count above 0.
C10_SizeAfterAging ==
    last.op = "AgeHashCache" =>
        \/ HashCacheSize <= MAX_HASH_CACHE_SIZE
        \/ \A k \in DOMAIN m_hash_cache : m_hash_cache[k].ref_count > 0
\* AgeHashCache found more than the maximum, none referenced, none expiring,
\* and purged down to the maximum.
C10_Witness ==
    /\ last.op = "AgeHashCache" /\ last.size_before = MAX_HASH_CACHE_SIZE + 2
    /\ \A k \in DOMAIN m_hash_cache : m_hash_cache[k].ref_count = 0 /\ m_hash_cache[k].age <= 301
    /\ HashCacheSize = MAX_HASH_CACHE_SIZE

\* C11: what one AgeHashCache call does to the entries, and what a
\* LookupSource that creates a Source does to the age of its entry.
\* Removed(k) says why an entry may be gone after the call.
C11_Ageing(Removed(_)) ==
    /\ (last'.op = "AgeHashCache" /\ frame' = frame + 1) =>
          /\ DOMAIN m_hash_cache' \subseteq DOMAIN m_hash_cache
          /\ \A k \in DOMAIN m_hash_cache :
                IF m_hash_cache[k].ref_count > 0
                THEN k \in DOMAIN m_hash_cache' /\ m_hash_cache'[k] = m_hash_cache[k]
                ELSE /\ m_hash_cache[k].age + 1 > MAX_HASH_CACHE_AGE
                            => k \notin DOMAIN m_hash_cache'
                     /\ k \in DOMAIN m_hash_cache'
                            => /\ m_hash_cache'[k] = [m_hash_cache[k] EXCEPT !.age = @ + 1]
                               /\ m_hash_cache'[k].age <= MAX_HASH_CACHE_AGE
                     /\ k \notin DOMAIN m_hash_cache'
                            => /\ Removed(k)
                               \* RecycleTexture, once: the device has the texture
                               \* back, had not before, and no entry owns it.
                               /\ m_hash_cache[k].texture \notin dev_free
                               /\ m_hash_cache[k].texture \in dev_free'
                               /\ \A j \in DOMAIN m_hash_cache \ {k} :
                                     m_hash_cache[j].texture # m_hash_cache[k].texture
          /\ dev_free' = dev_free \cup
                {m_hash_cache[k].texture : k \in DOMAIN m_hash_cache \ DOMAIN m_hash_cache'}
    /\ (last'.op = "LookupSource" /\ last'.ret # NullSource /\ ~sources[last'.ret].alive) =>
          /\ m_hash_cache'[sources'[last'.ret].from_hash_cache].age = 0
          /\ m_hash_cache'[sources'[last'.ret].from_hash_cache].ref_count > 0

\* C11, read with the size purge of AgeHashCache granted: an unreferenced
\* entry is aged by one; it is evicted, its texture recycled once, whenever its
\* incremented age exceeds MAX_HASH_CACHE_AGE, and otherwise only when the
\* cache still holds more than MAX_HASH_CACHE_SIZE entries after the eviction
\* by age; a kept entry never has an age above MAX_HASH_CACHE_AGE; a
\* referenced entry is left alone, and a re-referenced one restarts at age 0.
C11_EvictedForAgeOrExcess ==
    [][C11_Ageing(LAMBDA k :
          \/ m_hash_cache[k].age + 1 > MAX_HASH_CACHE_AGE
          \/ HashCacheSize - Cardinality(AgeEvicted(m_hash_cache))
                > MAX_HASH_CACHE_SIZE)]_vars

\* C12: after Clear every page list is empty (head and tail null) and no
\* Source is live; the hash cache has the entries it had, with their textures
\* and ages, each with ref_count 0.
C12_Step ==
    last'.op = "Clear" =>
        /\ \A pn \in 0..(NUM_PAGES - 1) : m_page_sources'[pn] = EmptyList
        /\ \A id \in SourceIds : ~sources'[id].alive
        /\ DOMAIN m_hash_cache' = DOMAIN m_hash_cache
        /\ \A k \in DOMAIN m_hash_cache :
              m_hash_cache'[k] = [m_hash_cache[k] EXCEPT !.ref_count = 0]
        /\ dev_free' = dev_free /\ tex_data' = tex_data
C12_Clear == [][C12_Step]_vars
\* Clear has destroyed every Source of a cache that held three, two of them
\* on one entry.
C12_Witness ==
    /\ last.op = "Clear" /\ Cardinality(last.destroyed) = Cardinality(Keys)
    /\ HashCacheSize = 2 /\ LiveSources = {}

\* C13: an InvalidateFromWrite(rect) whose rect intersects the drawn rect
\* makes the drawn rect the bounding union of the two, and leaves the list of
\* every page that intersects the grown drawn rect empty.
C13_Step ==
    (last'.op = "InvalidateFromWrite" /\ RectIntersects(m_drawn_rect, last'.rect)) =>
        /\ m_drawn_rect' = RectInclude(m_drawn_rect, last'.rect)
        /\ \A pn \in PagesOfRect(m_drawn_rect') : m_page_sources'[pn] = EmptyList
C13_WriteIntoDrawnArea == [][C13_Step]_vars

\* C14: what InvalidatePages(rect), or InvalidateFromWrite(rect) with rect
\* off the drawn rect, leaves of a Source none of whose footprint and CLUT
\* pages rect touches: the Source, its key, texture, entry and page refs, and
\* the ref_count of its entry as RefCountKept says; a LookupSource of the key
\* of a live Source returns that Source.
C14_Untouched(RefCountKept(_)) ==
    /\ (\/ last'.op = "InvalidatePages"
        \/ last'.op = "InvalidateFromWrite" /\ ~RectIntersects(m_drawn_rect, last'.rect)) =>
          \A id \in LiveSources :
              (FootprintPages(sources[id].key) \cup ClutPages(sources[id].key))
                  \cap PagesOfRect(last'.rect) = {}
              => /\ sources'[id].alive
                 /\ sources'[id].key = sources[id].key
                 /\ sources'[id].texture = sources[id].texture
                 /\ sources'[id].from_hash_cache = sources[id].from_hash_cache
                 /\ sources'[id].num_page_refs = sources[id].num_page_refs
                 /\ \A i \in 1..sources[id].num_page_refs :
                       /\ sources'[id].page_refs[i].list = sources[id].page_refs[i].list
                       /\ sources'[id].page_refs[i].ref = id
                 /\ \A d \in last'.destroyed : d.key # sources[id].key
                 /\ sources[id].from_hash_cache \in DOMAIN m_hash_cache'
                 /\ RefCountKept(id)
    /\ last'.op = "LookupSource" =>
          \A id \in LiveSources :
              sources[id].key = last'.key => last'.ret = id /\ last'.fetch = "none"

\* C14 as stated: the ref_count of the entry of an untouched Source is as it was.
C14_SameRefCount ==
    [][C14_Untouched(LAMBDA id :
          m_hash_cache'[sources[id].from_hash_cache].ref_count
              = m_hash_cache[sources[id].from_hash_cache].ref_count)]_vars

\* C14, amended: the entry of an untouched Source still counts it; its
\* ref_count falls only by the number of destroyed Sources that shared it.
C14_NoOverInvalidation ==
    [][C14_Untouched(LAMBDA id :
          LET e == sources[id].from_hash_cache
          IN /\ m_hash_cache'[e].ref_count
                  = m_hash_cache[e].ref_count
                      - Cardinality({d \in last'.destroyed : d.entry = e})
             /\ m_hash_cache'[e].ref_count >= 1)]_vars
\* An InvalidateFromWrite off the drawn rect has destroyed Sources and left a
\* Source whose pages the write did not touch.
C14_Witness ==
    /\ last.op = "InvalidateFromWrite" /\ last.destroyed # {}
    /\ ~RectIntersects(m_drawn_rect, last.rect)
    /\ \E id \in LiveSources :
          (FootprintPages(sources[id].key) \cup ClutPages(sources[id].key))
              \cap PagesOfRect(last.rect) = {}


\* The pages on whose lists Source id has a node.
RegisteredPages(id) ==
    {sources[id].page_refs[i].list : i \in 1..sources[id].num_page_refs}
SeqRange(seq) == {seq[i] : i \in DOMAIN seq}

\* C15: a lookup with mode Reserved_Direct16Bit never reaches an unreachable
\* case, and the Source it returns has the page hash, the zero palette hash,
\* the decoded texels and the pages of the same key with mode Direct16Bit.
C15_ReservedAsDirect ==
    (last.op \in {"LookupSource", "Panic"} /\ last.key.mode = Reserved_Direct16Bit) =>
       /\ ~(last.op = "Panic" /\ last.after = "unreachable")
       /\ (last.op = "LookupSource" /\ last.ret # NullSource) =>
             LET s == sources[last.ret]
                 k == last.key
             IN /\ s.from_hash_cache.texture_hash = HashPage(g_vram, k.page, Direct16Bit)
                /\ s.from_hash_cache.palette_hash = ZeroHash
                /\ tex_data[s.texture] = DecodeTexture(g_vram, k.page, k.palette, Direct16Bit)
                /\ RegisteredPages(last.ret) =
                      SeqRange(LoopPages(PageStartX(k.page), PageStartY(k.page),
                                         WidthForMode(Direct16Bit), TEXTURE_PAGE_HEIGHT))

\* C16: every live Source has its nodes on exactly the lists of the pages its
\* texture footprint intersects and, in the paletted modes, of the pages its
\* CLUT row intersects.
C16_PageRefsAreFootprintAndClut ==
    \A id \in SourceIds :
        sources[id].alive =>
            RegisteredPages(id) = FootprintPages(sources[id].key) \cup ClutPages(sources[id].key)

\* C17: for every key with page < NUM_PAGES, any mode and any palette,
\* CreateSource calls LoopPages only with rectangles that satisfy its
\* assertions (so no lookup stops in a failed DebugAssert), for the footprint
\* and for the CLUT row, and registers the Source on page numbers below
\* NUM_PAGES only.
C17_CreateSourceWithinAsserts ==
    /\ ~(last.op = "Panic" /\ last.after = "assert")
    /\ \A id \in SourceIds :
          sources[id].alive =>
             /\ CreateAsserts(sources[id].key)
             /\ RegisteredPages(id) \subseteq 0..(NUM_PAGES - 1)

\* C18 (as stated): the drawn rect holds only the draws since the last
\* write-caused invalidation: once an InvalidateFromWrite has invalidated the
\* drawn region, the draws before it no longer contribute, so with no draw
\* since the drawn rect is empty again.
C18_Step ==
    (last'.op = "InvalidateFromWrite" /\ RectIntersects(m_drawn_rect, last'.rect))
        => m_drawn_rect' = InvalidRect
C18_DrawnRectResetByWrite == [][C18_Step]_vars

\* C18 (amended): the drawn rect is never reset.  UpdateDrawnRect makes it
\* the bounding union of itself and the rectangle drawn, an
\* InvalidateFromWrite whose rectangle intersects it makes it the bounding
\* union of itself and the rectangle written, with InvalidatePages run on
\* that union: the list of every page it reaches is empty (and leaves it
\* alone otherwise), and no other operation changes it: it is the bounding
\* union of every draw since construction and of every write that met it.
C18_AccumulateStep ==
    /\ last'.op = "UpdateDrawnRect" =>
          \E rect \in DrawRects : m_drawn_rect' = RectInclude(m_drawn_rect, rect)
    /\ last'.op = "InvalidateFromWrite" =>
          m_drawn_rect' = IF RectIntersects(m_drawn_rect, last'.rect)
                          THEN RectInclude(m_drawn_rect, last'.rect)
                          ELSE m_drawn_rect
    /\ (last'.op = "InvalidateFromWrite" /\ RectIntersects(m_drawn_rect, last'.rect)) =>
          \A pn \in SeqRange(LoopPages(m_drawn_rect'.left, m_drawn_rect'.top,
                                       RectGetWidth(m_drawn_rect'),
                                       RectGetHeight(m_drawn_rect'))) :
             m_page_sources'[pn].head = NullNode
    /\ last'.op \notin {"UpdateDrawnRect", "InvalidateFromWrite"} =>
          m_drawn_rect' = m_drawn_rect
C18_DrawnRectAccumulates == [][C18_AccumulateStep]_vars
\* A write into the drawn area has been invalidated, and the drawn rect still
\* holds the earlier draw, grown by the write.
C18_Witness ==
    /\ last.op = "InvalidateFromWrite"
    /\ RectIntersects(m_drawn_rect, last.rect)
    /\ m_drawn_rect \notin DrawRects \cup {InvalidRect}
    /\ \E rect \in DrawRects : m_drawn_rect = RectInclude(rect, last.rect)

\* C19: for every Source created, in every mode and for every page and
\* palette, num_page_refs never exceeds MAX_PAGE_REFS_PER_SOURCE, and every
\* page ref in use is an element of page_refs.
C19_PageRefsWithinBound ==
    \A id \in SourceIds :
        /\ sources[id].num_page_refs <= MAX_PAGE_REFS_PER_SOURCE
        /\ sources[id].alive =>
              /\ sources[id].num_page_refs >= 1
              /\ \A i \in 1..sources[id].num_page_refs :
                    /\ i \in DOMAIN sources[id].page_refs
                    /\ sources[id].page_refs[i].ref = id
\* An 8-bit Source whose CLUT row starts off the page grid and spans five
\* pages has been created.
C19_Witness ==
    /\ last.op = "LookupSource" /\ last.fetch = "ok" /\ last.ret # NullSource
    /\ last.key.mode = Palette8Bit /\ last.key.palette = PaletteC
    /\ Cardinality(ClutPages(last.key)) = 5
    /\ sources[last.ret].num_page_refs = 2

\* The nodes of a list from node n on, following next for at most fuel nodes.
RECURSIVE ListFrom(_, _)
ListFrom(n, fuel) ==
    IF n = NullNode \/ fuel = 0 THEN <<>>
    ELSE <<n>> \o ListFrom(sources[n[1]].page_refs[n[2]].next, fuel - 1)
\* The page refs in use that name list p.
RefsOnList(p) ==
    {<<id, i>> \in SourceIds \X (1..MAX_PAGE_REFS_PER_SOURCE) :
        /\ sources[id].alive /\ i <= sources[id].num_page_refs
        /\ sources[id].page_refs[i].list = p}

\* C20: for every page p, the list of p is a well-formed doubly-linked list
\* (head.prev and tail.next null, prev and next mutually consistent, no node
\* twice); every node on it has list = p and ref = the live Source that owns
\* it; and every Source with a node on it has exactly one of its page refs
\* in use naming list p, which is that node.
C20_ListWellFormed(p) ==
    LET nodes == ListFrom(m_page_sources[p].head, MaxSources + 1)
        len == Len(nodes)
    IN /\ len <= MaxSources
       /\ (m_page_sources[p].head = NullNode) = (m_page_sources[p].tail = NullNode)
       /\ len > 0 => m_page_sources[p].tail = nodes[len]
       /\ \A i \in 1..len :
             LET n == nodes[i]
                 nd == sources[n[1]].page_refs[n[2]]
             IN /\ sources[n[1]].alive
                /\ n[2] <= sources[n[1]].num_page_refs
                /\ nd.list = p
                /\ nd.ref = n[1]
                /\ nd.prev = IF i = 1 THEN NullNode ELSE nodes[i - 1]
                /\ nd.next = IF i = len THEN NullNode ELSE nodes[i + 1]
                /\ \A j \in 1..len : nodes[j] = n => j = i
                /\ Cardinality({r \in RefsOnList(p) : r[1] = n[1]}) = 1
       /\ RefsOnList(p) = SeqRange(nodes)
C20_PageListsWellFormed == \A p \in 0..(NUM_PAGES - 1) : C20_ListWellFormed(p)
\* A paletted Source whose CLUT row lies in its footprint page holds one page
\* ref, on a list it shares with another Source.
C20_Witness ==
    \E id \in SourceIds :
        /\ sources[id].alive
        /\ sources[id].key.mode < Direct16Bit
        /\ ClutPages(sources[id].key) \cap FootprintPages(sources[id].key) # {}
        /\ sources[id].num_page_refs = 1
        /\ Len(ListFrom(m_page_sources[sources[id].key.page].head, MaxSources + 1)) >= 2

\* C21: in every reachable state, and so at the end of each AgeHashCache,
\* every hash-cache entry with ref_count > 0 has age 0.
C21_ReferencedEntryHasAgeZero ==
    \A k \in DOMAIN m_hash_cache :
        m_hash_cache[k].ref_count > 0 => m_hash_cache[k].age = 0
\* AgeHashCache has just aged unreferenced entries and passed over a
\* referenced one.
C21_Witness ==
    /\ last.op = "AgeHashCache"
    /\ \E k \in DOMAIN m_hash_cache : m_hash_cache[k].ref_count > 0
    /\ \E k \in DOMAIN m_hash_cache :
          m_hash_cache[k].ref_count = 0 /\ m_hash_cache[k].age > 0

\* The entries an AgeHashCache of the current cache erases for their age, and
\* the unreferenced entries left after that.
C22_Expired ==
    {k \in DOMAIN m_hash_cache :
        m_hash_cache[k].ref_count = 0 /\ m_hash_cache[k].age + 1 > MAX_HASH_CACHE_AGE}
C22_Unreferenced ==
    {k \in DOMAIN m_hash_cache \ C22_Expired : m_hash_cache[k].ref_count = 0}

\* C22: when the cache is still above MAX_HASH_CACHE_SIZE after the eviction
\* by age, AgeHashCache removes exactly min(size - MAX_HASH_CACHE_SIZE, number
\* of unreferenced entries) further entries, all unreferenced, and they are
\* the oldest: no surviving unreferenced entry is strictly older than a
\* removed one.
C22_Step ==
    (/\ last'.op = "AgeHashCache"
     /\ HashCacheSize - Cardinality(C22_Expired) > MAX_HASH_CACHE_SIZE) =>
        LET size == HashCacheSize - Cardinality(C22_Expired)
            purged == (DOMAIN m_hash_cache \ DOMAIN m_hash_cache') \ C22_Expired
        IN /\ purged \subseteq C22_Unreferenced
           /\ Cardinality(purged) =
                 Min(size - MAX_HASH_CACHE_SIZE, Cardinality(C22_Unreferenced))
           /\ \A r \in purged, k \in C22_Unreferenced \ purged :
                 m_hash_cache[k].age <= m_hash_cache[r].age
C22_SizePurgeTakesOldest == [][C22_Step]_vars
\* AgeHashCache found two entries above the maximum and purged two of the
\* three oldest, of equal age; the third survives, and so do younger ones.
C22_Witness ==
    /\ last.op = "AgeHashCache"
    /\ last.size_before = MAX_HASH_CACHE_SIZE + 2
    /\ HashCacheSize = MAX_HASH_CACHE_SIZE
    /\ LET zero == {k \in DOMAIN m_hash_cache : m_hash_cache[k].ref_count = 0}
       IN /\ Cardinality({k \in zero :
                   \A j \in zero : m_hash_cache[j].age <= m_hash_cache[k].age}) = 1
          /\ \E k \in zero, j \in zero : m_hash_cache[j].age < m_hash_cache[k].age


====
